---- MODULE Spec2Model ----
(***************************************************************************)
(* Model of src/app/app.py: the reconciliation / normalisation engine of   *)
(* the XPS-to-Excel converter.                                             *)
(*                                                                         *)
(*   convert_swedish_number   the per-cell locale number normaliser        *)
(*   fix_swedish_numbers      the normaliser applied to a whole frame      *)
(*   merge_fragmented_tables  the page-fragment reconciler                 *)
(*   extract_summary_data     the summary column resolver                  *)
(*                                                                         *)
(* Python text is a sequence of one-character strings, so that prefix,     *)
(* substring, count, replace and split are computed and not looked up.     *)
(* A cell value is a record [t, v]: t = "str" with v the characters,       *)
(* t = "float" with v = <<mantissa, scale>> (the number mantissa/10^scale, *)
(* in lowest terms), t = "nan" for a missing cell.                         *)
(***************************************************************************)
EXTENDS Integers, Sequences, FiniteSets, TLC

VARIABLES
    pc,             \* position of the function under execution
    value,          \* convert_swedish_number: the argument
    result,         \* convert_swedish_number(value)
    result2,        \* convert_swedish_number(result)
    tables,         \* merge_fragmented_tables: the argument (list of frames)
    idx,            \* merge_fragmented_tables: fragments consumed by the for loop
    merged,         \* merge_fragmented_tables: local list `merged`
    current_table,  \* merge_fragmented_tables: local `current_table`
    returned,       \* merge_fragmented_tables: the returned list
    table,          \* extract_summary_data: argument `table`
    source_file,    \* extract_summary_data: argument `source_file`
    sample_col,     \* extract_summary_data: local `sample_col`
    ngul_col,       \* extract_summary_data: local `ngul_col`
    ratio_col,      \* extract_summary_data: local `ratio_col`
    extracted,      \* extract_summary_data: local frame `extracted`
    summary         \* extract_summary_data: the returned value

vars == <<pc, value, result, result2, tables, idx, merged, current_table,
          returned, table, source_file, sample_col, ngul_col, ratio_col,
          extracted, summary>>

numVars == <<value, result, result2>>
mergeVars == <<tables, idx, merged, current_table, returned>>
resolveVars == <<table, source_file, sample_col, ngul_col, ratio_col,
                 extracted, summary>>

----------------------------------------------------------------------------
(* Bounds of the explored inputs. *)

MaxLen == 5     \* longest enumerated cell text
MaxFrags == 3   \* longest enumerated fragment sequence
MaxRows == 2    \* most rows of an enumerated fragment
MaxCols == 3    \* most columns of an enumerated summary table

----------------------------------------------------------------------------
(* Python str and float values. *)

Digits == {"0", "1", "2", "3", "4", "5", "6", "7", "8", "9"}

DigitVal(c) ==
    CASE c = "0" -> 0 [] c = "1" -> 1 [] c = "2" -> 2 [] c = "3" -> 3
      [] c = "4" -> 4 [] c = "5" -> 5 [] c = "6" -> 6 [] c = "7" -> 7
      [] c = "8" -> 8 [] c = "9" -> 9

Str(s) == [t |-> "str", v |-> s]
Float(m, k) == [t |-> "float", v |-> <<m, k>>]
NaN == [t |-> "nan", v |-> <<>>]

\* isinstance(value, str)
IsStr(x) == x.t = "str"

\* s.count(c)
Count(s, c) == Cardinality({i \in 1..Len(s) : s[i] = c})

\* s.replace(a, b) for one-character a and b
Replace(s, a, b) == [i \in 1..Len(s) |-> IF s[i] = a THEN b ELSE s[i]]

\* s.split(sep) for a one-character sep
RECURSIVE Split(_, _)
Split(s, sep) ==
    IF \E i \in 1..Len(s) : s[i] = sep
    THEN LET i == CHOOSE i \in 1..Len(s) :
                      s[i] = sep /\ \A j \in 1..(i - 1) : s[j] # sep
         IN  <<SubSeq(s, 1, i - 1)>> \o Split(SubSeq(s, i + 1, Len(s)), sep)
    ELSE <<s>>

\* s.startswith(p)
StartsWith(s, p) == Len(s) >= Len(p) /\ SubSeq(s, 1, Len(p)) = p

\* p in s  (substring containment)
Contains(s, p) ==
    \E i \in 0..(Len(s) - Len(p)) : SubSeq(s, i + 1, i + Len(p)) = p

AllDigits(s) == \A i \in 1..Len(s) : s[i] \in Digits

\* re.match(r'^\d+[,\.]\d+', s): digits, one comma or period, a digit.
ReMatch(s) ==
    \E i \in 1..Len(s) :
        /\ AllDigits(SubSeq(s, 1, i))
        /\ i + 2 <= Len(s)
        /\ s[i + 1] \in {",", "."}
        /\ s[i + 2] \in Digits

\* float(s) does not raise ValueError.  For text of digits, commas, periods
\* and letters other than those of an exponent, inf or nan, float accepts
\* exactly  digits [. [digits]]  and  . digits.
FloatParses(s) ==
    \/ Len(s) >= 1 /\ AllDigits(s)
    \/ \E i \in 1..Len(s) :
           /\ s[i] = "."
           /\ AllDigits(SubSeq(s, 1, i - 1))
           /\ AllDigits(SubSeq(s, i + 1, Len(s)))
           /\ Len(s) >= 2

RECURSIVE DigitsToNat(_)
DigitsToNat(s) ==
    IF Len(s) = 0 THEN 0
    ELSE 10 * DigitsToNat(SubSeq(s, 1, Len(s) - 1)) + DigitVal(s[Len(s)])

RECURSIVE StripZeros(_)
StripZeros(s) ==
    IF Len(s) > 0 /\ s[Len(s)] = "0" THEN StripZeros(SubSeq(s, 1, Len(s) - 1))
    ELSE s

\* float(s) for s with FloatParses(s): the number, not its spelling.
ParseFloat(s) ==
    LET dot == IF \E i \in 1..Len(s) : s[i] = "."
               THEN CHOOSE i \in 1..Len(s) : s[i] = "."
               ELSE Len(s) + 1
        ip == SubSeq(s, 1, dot - 1)
        fp == StripZeros(SubSeq(s, dot + 1, Len(s)))
    IN  Float(DigitsToNat(ip \o fp), Len(fp))

----------------------------------------------------------------------------
(* convert_swedish_number *)

\* A variant of SimpleCase that parses the text as it stands, the comma
\* still in it.
SimpleCaseNoReplace(v) ==
    IF FloatParses(v.v) THEN ParseFloat(v.v) ELSE v

\* lines 45-50: one comma, no period.
SimpleCase(v) ==
    LET r == Replace(v.v, ",", ".")
    IN  IF FloatParses(r) THEN ParseFloat(r) ELSE v

\* A variant of ComplexCase that only removes the period (line 40: "remove
\* any dots used as thousands separator") and hands the text back.
ComplexCaseStripDots(v) ==
    Str(SelectSeq(v.v, LAMBDA c : c # "."))

\* lines 51-63: one comma, one period.  `value` is reassigned before the
\* try, so the except branch returns the rewritten text.
ComplexCase(v) ==
    LET v1 == Replace(v.v, ",", ".")
        parts == Split(v1, ".")
        v2 == IF Len(parts) = 3 /\ Len(parts[2]) = 1
              THEN parts[1] \o <<".">> \o parts[3]
              ELSE v1
    IN  IF FloatParses(v2) THEN ParseFloat(v2) ELSE Str(v2)

convert_swedish_number(v) ==
    IF ~IsStr(v) THEN v
    ELSE IF ReMatch(v.v)
         THEN LET comma_count == Count(v.v, ",")
                  dot_count == Count(v.v, ".")
              IN  IF comma_count = 1 /\ dot_count = 0 THEN SimpleCase(v)
                  ELSE IF comma_count = 1 /\ dot_count = 1 THEN ComplexCase(v)
                  ELSE v
         ELSE v

----------------------------------------------------------------------------
(* The normaliser applied to one cell, and again to its own result. *)

Unset == [t |-> "unset", v |-> <<>>]

\* pd.DataFrame(): no columns, no rows
NoFrame == [columns |-> <<>>, rows |-> <<>>]

Alphabet == {"0", "1", ",", ".", "x"}

Text(n) == UNION {[1..k -> Alphabet] : k \in 0..n}

\* The cells named by the documentation and tests of the normaliser.
Examples ==
    { Str(<<"4", ",", "1", "4", "1">>),
      Str(<<"1", "7", "3", ",", "0", ".", "7", "1">>),
      Str(<<"1", ".", "2", "3", "4", ".", "5", "6", "7">>),
      Str(<<"a", "b", "c">>),
      Float(42, 0), Float(15, 1), NaN }

Cells == {Str(s) : s \in Text(MaxLen)} \cup Examples

NumIdle == value = Unset /\ result = Unset /\ result2 = Unset
MergeIdle ==
    /\ tables = <<>> /\ idx = 0 /\ merged = <<>>
    /\ current_table = <<>> /\ returned = <<>>
ResolveIdle ==
    /\ table = NoFrame /\ source_file = Unset /\ sample_col = <<>>
    /\ ngul_col = <<>> /\ ratio_col = <<>> /\ extracted = NoFrame
    /\ summary = <<>>

InitNumber ==
    /\ pc = "convert"
    /\ value \in Cells
    /\ result = Unset /\ result2 = Unset
    /\ MergeIdle /\ ResolveIdle

\* result = convert_swedish_number(value)
Convert ==
    /\ pc = "convert"
    /\ result' = convert_swedish_number(value)
    /\ pc' = "convert_again"
    /\ UNCHANGED <<value, result2, mergeVars, resolveVars>>

\* result2 = convert_swedish_number(result)
ConvertAgain ==
    /\ pc = "convert_again"
    /\ result2' = convert_swedish_number(result)
    /\ pc' = "converted"
    /\ UNCHANGED <<value, result, mergeVars, resolveVars>>

NextNumber == Convert \/ ConvertAgain

SpecNumber == InitNumber /\ [][NextNumber]_vars

----------------------------------------------------------------------------
(* Frames (pandas.DataFrame): [columns, rows], the column labels in order  *)
(* and the rows in index order, each row the cells in column order.        *)
(* Labels are unique within a frame.                                       *)

Range(f) == {f[i] : i \in DOMAIN f}

\* DataFrame.empty: an axis of length 0.
Empty(t) == Len(t.columns) = 0 \/ Len(t.rows) = 0

\* The row `row` of frame t laid out under the labels cols: a label t does
\* not have gives a missing cell.
Reindex(t, row, cols) ==
    [k \in 1..Len(cols) |->
        IF \E m \in 1..Len(t.columns) : t.columns[m] = cols[k]
        THEN row[CHOOSE m \in 1..Len(t.columns) : t.columns[m] = cols[k]]
        ELSE NaN]

\* pd.concat([a, b], ignore_index=True): the labels of a, then those of b
\* that a does not have; the rows of a, then the rows of b, each aligned by
\* label.
Concat(a, b) ==
    LET cols == a.columns \o
                SelectSeq(b.columns, LAMBDA c : c \notin Range(a.columns))
    IN  [columns |-> cols,
         rows |-> [j \in 1..Len(a.rows) |-> Reindex(a, a.rows[j], cols)] \o
                  [j \in 1..Len(b.rows) |-> Reindex(b, b.rows[j], cols)]]

----------------------------------------------------------------------------
(* merge_fragmented_tables *)

\* 'Unnamed', the prefix of the extractor's placeholder labels (line 90)
Unnamed == <<"U", "n", "n", "a", "m", "e", "d">>

\* A variant of IsContinuation that compares the shapes of the headers.
IsContinuationSameWidth(t, cur) ==
    \/ Len(t.columns) = Len(cur.columns)
    \/ StartsWith(t.columns[1], Unnamed)

\* lines 85-92, for a fragment t and an open accumulator cur.
IsContinuation(t, cur) ==
    \/ t.columns = cur.columns
    \/ StartsWith(t.columns[1], Unnamed)

LA == <<"A">>
LB == <<"B">>
LC == <<"C">>
LD == <<"D">>
Unnamed0 == Unnamed \o <<":", " ", "0">>
Unnamed1 == Unnamed \o <<":", " ", "1">>

HeaderPool ==
    { <<LA, LB>>, <<LC, LD>>, <<Unnamed0, LB>>, <<Unnamed0, Unnamed1>> }

\* The fragment at position i with header h and n rows; every cell differs
\* from every other cell of the input.
Fragment(i, h, n) ==
    [columns |-> h,
     rows |-> [j \in 1..n |->
                 [k \in 1..Len(h) |-> Float(100 * i + 10 * j + k, 0)]]]

InitMerge ==
    /\ pc = "merge"
    /\ \E n \in 0..MaxFrags :
         \E hs \in [1..n -> HeaderPool], ns \in [1..n -> 0..MaxRows] :
            tables = [i \in 1..n |-> Fragment(i, hs[i], ns[i])]
    /\ idx = 0 /\ merged = <<>> /\ current_table = <<>> /\ returned = <<>>
    /\ NumIdle /\ ResolveIdle

\* lines 71-72
ReturnShort ==
    /\ pc = "merge"
    /\ Len(tables) <= 1
    /\ returned' = tables
    /\ pc' = "merge_done"
    /\ UNCHANGED <<tables, idx, merged, current_table, numVars, resolveVars>>

\* lines 74-75
EnterLoop ==
    /\ pc = "merge"
    /\ Len(tables) > 1
    /\ merged' = <<>>
    /\ current_table' = <<>>
    /\ idx' = 0
    /\ pc' = "merge_loop"
    /\ UNCHANGED <<tables, returned, numVars, resolveVars>>

\* lines 77-80: one iteration of the loop, on an empty fragment
SkipEmpty ==
    /\ pc = "merge_loop"
    /\ idx < Len(tables)
    /\ Empty(tables[idx + 1])
    /\ idx' = idx + 1
    /\ UNCHANGED <<pc, tables, merged, current_table, returned,
                   numVars, resolveVars>>

\* lines 77-96: one iteration of the loop, on a continuation
MergeContinuation ==
    /\ pc = "merge_loop"
    /\ idx < Len(tables)
    /\ ~Empty(tables[idx + 1])
    /\ current_table # <<>>
    /\ IsContinuation(tables[idx + 1], current_table[1])
    /\ current_table' = <<Concat(current_table[1], tables[idx + 1])>>
    /\ idx' = idx + 1
    /\ UNCHANGED <<pc, tables, merged, returned, numVars, resolveVars>>

\* lines 77-101: one iteration of the loop, on the first fragment of a table
StartNewTable ==
    /\ pc = "merge_loop"
    /\ idx < Len(tables)
    /\ ~Empty(tables[idx + 1])
    /\ \/ current_table = <<>>
       \/ current_table # <<>>
          /\ ~IsContinuation(tables[idx + 1], current_table[1])
    /\ merged' = merged \o current_table
    /\ current_table' = <<tables[idx + 1]>>
    /\ idx' = idx + 1
    /\ UNCHANGED <<pc, tables, returned, numVars, resolveVars>>

\* lines 103-107
ReturnMerged ==
    /\ pc = "merge_loop"
    /\ idx = Len(tables)
    /\ merged' = merged \o current_table
    /\ returned' = merged \o current_table
    /\ pc' = "merge_done"
    /\ UNCHANGED <<tables, idx, current_table, numVars, resolveVars>>

NextMerge ==
    \/ ReturnShort
    \/ EnterLoop
    \/ SkipEmpty
    \/ MergeContinuation
    \/ StartNewTable
    \/ ReturnMerged

SpecMerge == InitMerge /\ [][NextMerge]_vars

----------------------------------------------------------------------------
(* fix_swedish_numbers *)

\* The cells of the column at position k.
ColumnAt(t, k) == [j \in 1..Len(t.rows) |-> t.rows[j][k]]

\* df[col].dtype == 'object': the column holds text.
IsObject(t, k) == \E j \in 1..Len(t.rows) : IsStr(t.rows[j][k])

\* lines 19-28
fix_swedish_numbers(df) ==
    [columns |-> df.columns,
     rows |-> [j \in 1..Len(df.rows) |->
                 [k \in 1..Len(df.columns) |->
                     IF IsObject(df, k) /\ IsStr(df.rows[j][k])
                     THEN convert_swedish_number(df.rows[j][k])
                     ELSE df.rows[j][k]]]]

----------------------------------------------------------------------------
(* extract_summary_data *)

\* "MICRO" stands for the one character U+00B5.
\* line 116
sample_cols ==
    << <<"S", "a", "m", "p", "l", "e">>,
       <<"s", "a", "m", "p", "l", "e">>,
       <<"S", "a", "m", "p", "l", "e", " ", "N", "a", "m", "e">>,
       <<"s", "a", "m", "p", "l", "e", " ", "n", "a", "m", "e">> >>

\* line 117
ngul_cols ==
    << <<"n", "g", "/", "u", "l">>,
       <<"n", "g", "/", "u", "L">>,
       <<"n", "g", "/", "MICRO", "l">>,
       <<"C", "o", "n", "c", "e", "n", "t", "r", "a", "t", "i", "o", "n">>,
       <<"c", "o", "n", "c", "e", "n", "t", "r", "a", "t", "i", "o", "n">> >>

\* line 118
ratio_cols ==
    << <<"2", "6", "0", "/", "2", "8", "0">>,
       <<"2", "6", "0", " ", "/", " ", "2", "8", "0">>,
       <<"A", "2", "6", "0", "/", "A", "2", "8", "0">>,
       <<"R", "a", "t", "i", "o">> >>

\* The labels of the result frame (lines 145-153)
SourceFileLabel == <<"S", "o", "u", "r", "c", "e", " ", "F", "i", "l", "e">>
SampleLabel == <<"S", "a", "m", "p", "l", "e">>
NgulLabel == <<"n", "g", "/", "u", "l">>
RatioLabel == <<"2", "6", "0", "/", "2", "8", "0">>

\* any(s in str(col) for s in variants)
AnyIn(col, variants) ==
    \E i \in 1..Len(variants) : Contains(col, variants[i])

\* A variant of FindColumn that wants the label to be one of the variants.
FindColumnExact(t, variants) ==
    LET hits == {k \in 1..Len(t.columns) : t.columns[k] \in Range(variants)}
    IN  IF hits = {} THEN <<>>
        ELSE <<t.columns[CHOOSE k \in hits : \A m \in hits : k <= m]>>

\* lines 123-127 (and 130-134, 137-141): the first label, left to right,
\* that holds one of the variants; <<>> is None.
FindColumn(t, variants) ==
    LET hits == {k \in 1..Len(t.columns) : AnyIn(t.columns[k], variants)}
    IN  IF hits = {} THEN <<>>
        ELSE <<t.columns[CHOOSE k \in hits : \A m \in hits : k <= m]>>

\* `if sample_col:` - neither None nor the empty text
Truthy(col) == col # <<>> /\ col[1] # <<>>

\* table[col]
Column(t, col) ==
    ColumnAt(t, CHOOSE k \in 1..Len(t.columns) : t.columns[k] = col)

\* extracted[name] = cells, for a name the frame does not have yet; a frame
\* without columns takes the index of the cells.
SetColumn(df, name, cells) ==
    IF Len(df.columns) = 0
    THEN [columns |-> <<name>>,
          rows |-> [j \in 1..Len(cells) |-> <<cells[j]>>]]
    ELSE [columns |-> Append(df.columns, name),
          rows |-> [j \in 1..Len(df.rows) |-> Append(df.rows[j], cells[j])]]

\* extracted.insert(0, name, scalar)
InsertFirst(df, name, scalar) ==
    [columns |-> <<name>> \o df.columns,
     rows |-> [j \in 1..Len(df.rows) |-> <<scalar>> \o df.rows[j]]]

LSampleName == <<"S", "a", "m", "p", "l", "e", " ", "N", "a", "m", "e">>
LNgUL == <<"n", "g", "/", "u", "L">>
LOther == <<"O", "t", "h", "e", "r">>
LSampleRatio == <<"S", "a", "m", "p", "l", "e", " ", "R", "a", "t", "i", "o">>
LSAMPLE == <<"S", "A", "M", "P", "L", "E">>

LabelPool == {LSampleName, LNgUL, LOther, LSampleRatio, LSAMPLE}

\* The cells of a row are these, in turn, from any of them on.
CellPool == <<Str(<<"4", ",", "1">>), Str(<<"S", "1">>), Float(15, 1)>>

RowFrom(r, n) == [k \in 1..n |-> CellPool[((r + k - 2) % Len(CellPool)) + 1]]

SourcePool == {Str(<<"d", "o", "c", "1">>), Str(<<"1", "2", ",", "5">>)}

\* Headers of 1..n distinct labels.
Headers(n) ==
    UNION {{h \in [1..k -> LabelPool] :
               \A a, b \in 1..k : a # b => h[a] # h[b]} : k \in 1..n}

InitResolve ==
    /\ pc = "find_sample"
    /\ \E h \in Headers(MaxCols), n \in 0..MaxRows, r \in 1..Len(CellPool) :
         table = [columns |-> h,
                  rows |-> [j \in 1..n |-> RowFrom(r + j - 1, Len(h))]]
    /\ source_file \in SourcePool
    /\ sample_col = <<>> /\ ngul_col = <<>> /\ ratio_col = <<>>
    /\ extracted = NoFrame /\ summary = <<>>
    /\ NumIdle /\ MergeIdle

\* lines 120-127
FindSample ==
    /\ pc = "find_sample"
    /\ extracted' = NoFrame
    /\ sample_col' = FindColumn(table, sample_cols)
    /\ pc' = "find_ngul"
    /\ UNCHANGED <<table, source_file, ngul_col, ratio_col, summary,
                   numVars, mergeVars>>

\* lines 129-134
FindNgul ==
    /\ pc = "find_ngul"
    /\ ngul_col' = FindColumn(table, ngul_cols)
    /\ pc' = "find_ratio"
    /\ UNCHANGED <<table, source_file, sample_col, ratio_col, extracted,
                   summary, numVars, mergeVars>>

\* A variant of FindRatio that passes over the columns already taken.
FindRatioExclusive ==
    /\ pc = "find_ratio"
    /\ ratio_col' =
          FindColumn([columns |-> SelectSeq(table.columns,
                          LAMBDA c : <<c>> \notin {sample_col, ngul_col}),
                      rows |-> <<>>], ratio_cols)
    /\ pc' = "extract"
    /\ UNCHANGED <<table, source_file, sample_col, ngul_col, extracted,
                   summary, numVars, mergeVars>>

\* lines 136-141
FindRatio ==
    /\ pc = "find_ratio"
    /\ ratio_col' = FindColumn(table, ratio_cols)
    /\ pc' = "extract"
    /\ UNCHANGED <<table, source_file, sample_col, ngul_col, extracted,
                   summary, numVars, mergeVars>>

\* lines 143-149
ExtractColumns ==
    /\ pc = "extract"
    /\ LET e1 == IF Truthy(sample_col)
                 THEN SetColumn(extracted, SampleLabel,
                                Column(table, sample_col[1]))
                 ELSE extracted
           e2 == IF Truthy(ngul_col)
                 THEN SetColumn(e1, NgulLabel, Column(table, ngul_col[1]))
                 ELSE e1
           e3 == IF Truthy(ratio_col)
                 THEN SetColumn(e2, RatioLabel, Column(table, ratio_col[1]))
                 ELSE e2
       IN  extracted' = e3
    /\ pc' = "finish"
    /\ UNCHANGED <<table, source_file, sample_col, ngul_col, ratio_col,
                   summary, numVars, mergeVars>>

\* lines 151-157, `extracted` not empty
ReturnRecord ==
    /\ pc = "finish"
    /\ ~Empty(extracted)
    /\ extracted' = fix_swedish_numbers(
                        InsertFirst(extracted, SourceFileLabel, source_file))
    /\ summary' = <<extracted'>>
    /\ pc' = "resolved"
    /\ UNCHANGED <<table, source_file, sample_col, ngul_col, ratio_col,
                   numVars, mergeVars>>

\* lines 151-157, `extracted` empty
ReturnNone ==
    /\ pc = "finish"
    /\ Empty(extracted)
    /\ summary' = <<>>
    /\ pc' = "resolved"
    /\ UNCHANGED <<table, source_file, sample_col, ngul_col, ratio_col,
                   extracted, numVars, mergeVars>>

NextResolve ==
    \/ FindSample
    \/ FindNgul
    \/ FindRatio
    \/ ExtractColumns
    \/ ReturnRecord
    \/ ReturnNone

SpecResolve == InitResolve /\ [][NextResolve]_vars

----------------------------------------------------------------------------
(* Properties of merge_fragmented_tables, under SpecMerge. *)

HasRows(t) == Len(t.rows) > 0

NoPlaceholder(fs) ==
    \A i \in 1..Len(fs) : ~StartsWith(fs[i].columns[1], Unnamed)

RECURSIVE RowsOf(_)
RowsOf(fs) ==
    IF fs = <<>> THEN <<>> ELSE fs[1].rows \o RowsOf(Tail(fs))

\* The maximal runs of consecutive frames with equal headers, each run as
\* one frame holding the rows of its frames in order.
RECURSIVE Runs(_)
Runs(fs) ==
    IF fs = <<>> THEN <<>>
    ELSE LET n == CHOOSE n \in 1..Len(fs) :
                      /\ \A i \in 1..n : fs[i].columns = fs[1].columns
                      /\ n < Len(fs) => fs[n + 1].columns # fs[1].columns
         IN  <<[columns |-> fs[1].columns, rows |-> RowsOf(SubSeq(fs, 1, n))]>>
             \o Runs(SubSeq(fs, n + 1, Len(fs)))

\* The cells a row holds, each with its label; missing cells left out.
RowCells(t, j) ==
    {<<t.columns[k], t.rows[j][k]>> :
        k \in {m \in 1..Len(t.columns) : t.rows[j][m] # NaN}}

\* The rows of a list of frames, in order, each as the cells it holds.
RECURSIVE RowList(_)
RowList(fs) ==
    IF fs = <<>> THEN <<>>
    ELSE [j \in 1..Len(fs[1].rows) |-> RowCells(fs[1], j)] \o RowList(Tail(fs))

\* C1: for two or more fragments, none with a placeholder first header, the
\* result is exactly the maximal runs of consecutive equal-header fragments
\* of the input with its zero-row fragments removed, one table per run, in
\* input order, its rows the rows of the run's fragments in order.
C1_MaximalRuns ==
    (pc = "merge_done" /\ Len(tables) >= 2 /\ NoPlaceholder(tables)) =>
        returned = Runs(SelectSeq(tables, HasRows))

\* A, empty, A has been merged into one table.
C1_Witness ==
    /\ pc = "merge_done" /\ Len(tables) = 3 /\ NoPlaceholder(tables)
    /\ HasRows(tables[1]) /\ ~HasRows(tables[2]) /\ HasRows(tables[3])
    /\ tables[1].columns = tables[3].columns
    /\ Len(returned) = 1
    /\ returned[1].rows = tables[1].rows \o tables[3].rows

\* C2: merging a continuation into the open accumulator leaves the
\* accumulator's header sequence as it was before the merge.
C2_HeadersRetained ==
    [][MergeContinuation =>
          current_table'[1].columns = current_table[1].columns]_vars

\* C3: no table of the result has zero rows, whatever the length of the
\* input.
C3_NoZeroRowTable ==
    (pc = "merge_done") =>
        \A i \in 1..Len(returned) : Len(returned[i].rows) > 0

\* C10: after any prefix of the input the rows of the emitted tables followed
\* by those of the open accumulator are the rows of the fragments seen so
\* far, in order, each once; on return that holds of the result, and the
\* result has at most as many tables as the input has non-empty fragments.
C10_RowConservation ==
    /\ (pc = "merge_loop") =>
           RowList(merged \o current_table) = RowList(SubSeq(tables, 1, idx))
    /\ (pc = "merge_done") =>
           /\ RowList(returned) = RowList(tables)
           /\ Len(returned) <=
                  Cardinality({i \in 1..Len(tables) : HasRows(tables[i])})

----------------------------------------------------------------------------
(* Properties of convert_swedish_number, under SpecNumber. *)

Converted == pc \in {"convert_again", "converted"}

\* C4: for every text input the result is either a parsed number or a text
\* identical, character for character, to the input (in particular an
\* unparseable one-comma-one-period cell comes back as the original text).
C4_NumberOrOriginalText ==
    (Converted /\ IsStr(value)) => (result.t = "float" \/ result = value)

\* C5: convert_swedish_number(convert_swedish_number(x)) equals
\* convert_swedish_number(x) for every x, and a non-text x is returned
\* unchanged.
C5_Idempotent ==
    (pc = "converted") =>
        /\ result2 = result
        /\ ~IsStr(value) => result = value

\* A text cell that the first application changed has been converted twice.
C5_Witness ==
    pc = "converted" /\ IsStr(value) /\ result # value /\ IsStr(result)

----------------------------------------------------------------------------
(* Properties of extract_summary_data, under SpecResolve. *)

\* The positions of the headers that hold a variant of the list.
Matching(variants) ==
    {k \in 1..Len(table.columns) :
        \E i \in 1..Len(variants) : Contains(table.columns[k], variants[i])}

Leftmost(S) == CHOOSE k \in S : \A m \in S : k <= m

\* The three fields in the order of the record: the variants of each and
\* its label in the record.
Fields ==
    << [variants |-> sample_cols, label |-> SampleLabel],
       [variants |-> ngul_cols, label |-> NgulLabel],
       [variants |-> ratio_cols, label |-> RatioLabel] >>

Resolved == SelectSeq(Fields, LAMBDA f : Matching(f.variants) # {})

\* C7: for a non-empty table there is no record if and only if no header
\* holds a variant of any of the three fields; otherwise the record has the
\* source field and exactly the resolved fields, and each resolved field
\* holds the (normalised) cells of the leftmost header holding one of its
\* variants.
C7_Resolution ==
    (pc = "resolved" /\ HasRows(table)) =>
        /\ summary = <<>> <=> Resolved = <<>>
        /\ summary # <<>> =>
              /\ summary[1].columns =
                    <<SourceFileLabel>> \o
                    [i \in 1..Len(Resolved) |-> Resolved[i].label]
              /\ \A i \in 1..Len(Resolved), j \in 1..Len(table.rows) :
                    summary[1].rows[j][i + 1] =
                        convert_swedish_number(
                            table.rows[j][Leftmost(Matching(Resolved[i].variants))])

\* The table "Sample Name", "ng/uL", "Other" with the rows "S1", 1.5, ...
\* and 1.5, "4,1", ... has given a record of source, sample and
\* concentration, the text "4,1" read as 4.1.
C7_Witness ==
    /\ pc = "resolved"
    /\ table.columns = <<LSampleName, LNgUL, LOther>>
    /\ Len(table.rows) >= 2
    /\ table.rows[1][1] = Str(<<"S", "1">>)
    /\ table.rows[1][2] = Float(15, 1)
    /\ table.rows[2][2] = Str(<<"4", ",", "1">>)
    /\ summary # <<>>
    /\ summary[1].columns = <<SourceFileLabel, SampleLabel, NgulLabel>>
    /\ summary[1].rows[1][2] = Str(<<"S", "1">>)
    /\ summary[1].rows[1][3] = Float(15, 1)
    /\ summary[1].rows[2][3] = Float(41, 1)

Bound == pc \in {"extract", "finish", "resolved"}

\* C8: a column whose header satisfies the variant lists of more than one
\* field is bound only to the field resolved first: no column is the source
\* of two fields of a record.
C8_ColumnBoundOnce ==
    Bound =>
        /\ sample_col # <<>> => sample_col \notin {ngul_col, ratio_col}
        /\ ngul_col # <<>> => ngul_col # ratio_col

\* C8, amended: each field is bound on its own to the leftmost header that
\* holds one of its variants, also when that column is bound to another
\* field already.
C8_BoundPerField ==
    Bound =>
        \A k \in 1..Len(table.columns) :
            /\ (k \in Matching(sample_cols) /\ k = Leftmost(Matching(sample_cols)))
                   => sample_col = <<table.columns[k]>>
            /\ (k \in Matching(ngul_cols) /\ k = Leftmost(Matching(ngul_cols)))
                   => ngul_col = <<table.columns[k]>>
            /\ (k \in Matching(ratio_cols) /\ k = Leftmost(Matching(ratio_cols)))
                   => ratio_col = <<table.columns[k]>>

\* One column has become the source of the sample and of the purity ratio.
C8_Witness ==
    /\ pc = "resolved" /\ HasRows(table)
    /\ sample_col # <<>> /\ sample_col = ratio_col
    /\ summary # <<>>
    /\ \A j \in 1..Len(table.rows) :
          summary[1].rows[j][2] = summary[1].rows[j][Len(summary[1].columns)]

\* C9: the source field of every row of the record is the source label as
\* supplied.
C9_SourceUnchanged ==
    (pc = "resolved" /\ summary # <<>>) =>
        \A j \in 1..Len(summary[1].rows) : summary[1].rows[j][1] = source_file

====
